---- MODULE Spec2Model ----
(***************************************************************************)
(* Model of the file-management backend: FileService (listDirectory,      *)
(* getFileContent, downloadItem), the pass-through FileController and the *)
(* /list, /file and /download routes.                                      *)
(*                                                                         *)
(* A name is a sequence of one-character strings, a logical path is the    *)
(* sequence of its "/"-separated segments ("/a/b" is <<"", a, b>>, the     *)
(* empty string is <<"">>), an absolute filesystem path is the sequence of *)
(* its names below the filesystem root.                                    *)
(***************************************************************************)
EXTENDS Integers, Sequences, FiniteSets, TLC

\* ------------------------------------------------------------------------
\* Bounds of the model
\* ------------------------------------------------------------------------

\* longest logical path a request carries, in segments
MaxPathLen == 3

\* bytes a read stream hands over per chunk
ChunkSize == 2

\* entries the unpiped archive can still buffer (archiver/stream highWaterMark)
HighWaterMark == 2

\* Children another process removes while a directory is being listed.
MaxDeletes == 1

\* Changes another process makes to the target of a /file or /download
\* request while the request is in progress.
MaxChanges == 1

\* Directory loads one browser tab starts.
MaxLoads == 3

\* ------------------------------------------------------------------------
\* Characters and names
\* ------------------------------------------------------------------------

Lower == <<"a","b","c","d","e","f","g","h","i","j","k","l","m",
           "n","o","p","q","r","s","t","u","v","w","x","y","z">>

Upper == <<"A","B","C","D","E","F","G","H","I","J","K","L","M",
           "N","O","P","Q","R","S","T","U","V","W","X","Y","Z">>

IsUpper(c) == \E i \in DOMAIN Upper : Upper[i] = c

IsLower(c) == \E i \in DOMAIN Lower : Lower[i] = c

LetterIndex(c) ==
  IF IsUpper(c) THEN CHOOSE i \in DOMAIN Upper : Upper[i] = c
  ELSE IF IsLower(c) THEN CHOOSE i \in DOMAIN Lower : Lower[i] = c
  ELSE 0

\* String.prototype.toLowerCase on one character
ToLowerChar(c) == IF IsUpper(c) THEN Lower[LetterIndex(c)] ELSE c

\* String.prototype.toLowerCase
ToLowerCase(s) == [i \in DOMAIN s |-> ToLowerChar(s[i])]

Empty == <<>>
Dot == <<".">>
DotDot == <<".", ".">>

n_data == <<"d","a","t","a">>
n_d == <<"d">>
n_Z == <<"Z">>
n_b == <<"b">>
n_cx == <<"c",".","x">>
n_atxt == <<"a",".","t","x","t">>
n_js == <<".","j","s">>
n_RMD == <<"R",".","M","D">>
n_app == <<"a","p","p">>
n_static == <<"s","t","a","t","i","c","-","f","i","l","e","s">>
n_docs == <<"d","o","c","s">>
n_scripts == <<"s","c","r","i","p","t","s">>

\* ------------------------------------------------------------------------
\* The filesystem
\* ------------------------------------------------------------------------

\* a directory; stat reports the size of its own block, not 0
DirNode(entries) == [kind |-> "dir", entries |-> entries, content |-> <<>>, size |-> 4096]

FileNode(content) == [kind |-> "file", entries |-> <<>>, content |-> content, size |-> Len(content)]

\* this.dataDir: the production data directory, /data
dataDir == <<n_data>>

\* The tree the server runs on; entries are in on-disk (readdir) order.
\*   /a.txt                 (outside the data directory)
\*   /data/{c.x, Z/, b, d/}
\*   /data/d/{a.txt, Z/, .js}      /data/d/Z is empty
\*   /data/Z/{R.MD}
InitialFs ==
  (<<>> :> DirNode(<<n_atxt, n_data>>)) @@
  (<<n_atxt>> :> FileNode(<<9, 9>>)) @@
  (<<n_data>> :> DirNode(<<n_cx, n_Z, n_b, n_d>>)) @@
  (<<n_data, n_cx>> :> FileNode(<<8>>)) @@
  (<<n_data, n_b>> :> FileNode(<<>>)) @@
  (<<n_data, n_Z>> :> DirNode(<<n_RMD>>)) @@
  (<<n_data, n_Z, n_RMD>> :> FileNode(<<5, 6, 7>>)) @@
  (<<n_data, n_d>> :> DirNode(<<n_atxt, n_Z, n_js>>)) @@
  (<<n_data, n_d, n_atxt>> :> FileNode(<<1, 2, 3>>)) @@
  (<<n_data, n_d, n_Z>> :> DirNode(<<>>)) @@
  (<<n_data, n_d, n_js>> :> FileNode(<<4>>))

\* ------------------------------------------------------------------------
\* path.join / path.basename / path.extname (posix)
\* ------------------------------------------------------------------------

\* Segments a request may use: "", ".", ".." and the names of the tree.
Segs == {Empty, Dot, DotDot, n_d, n_Z, n_b, n_cx, n_atxt, n_js, n_RMD}

\* All logical paths of at most MaxPathLen segments.
Paths == UNION {[1..n -> Segs] : n \in 1..MaxPathLen}

\* normalizeString for an absolute path: drops "" and ".", ".." removes the
\* last kept segment and is dropped at the filesystem root.
RECURSIVE NormalizeSegs(_, _)
NormalizeSegs(segs, acc) ==
  IF segs = <<>> THEN acc
  ELSE LET s == Head(segs)
           acc2 == IF s = Empty \/ s = Dot THEN acc
                   ELSE IF s = DotDot
                        THEN (IF acc = <<>> THEN acc ELSE SubSeq(acc, 1, Len(acc) - 1))
                        ELSE Append(acc, s)
       IN NormalizeSegs(Tail(segs), acc2)

\* path.join(base, p) for an absolute base: the normalized segments and
\* whether the result keeps a trailing separator.  An empty p is skipped.
Join(base, p) ==
  IF p = <<Empty>> THEN [segs |-> NormalizeSegs(base, <<>>), trail |-> FALSE]
  ELSE LET n == NormalizeSegs(base \o p, <<>>)
       IN [segs |-> n, trail |-> (p[Len(p)] = Empty /\ n # <<>>)]

\* path.join(dirPath, item) for the logical path of a listed child:
\* relative or absolute as dirPath is, ".." kept when nothing is left to pop.
RECURSIVE NormalizeRel(_, _)
NormalizeRel(segs, acc) ==
  IF segs = <<>> THEN acc
  ELSE LET s == Head(segs)
           acc2 == IF s = Empty \/ s = Dot THEN acc
                   ELSE IF s = DotDot
                        THEN (IF acc # <<>> /\ acc[Len(acc)] # DotDot
                              THEN SubSeq(acc, 1, Len(acc) - 1)
                              ELSE Append(acc, s))
                        ELSE Append(acc, s)
       IN NormalizeRel(Tail(segs), acc2)

IsAbsolute(p) == Len(p) > 1 /\ p[1] = Empty

JoinLogical(dirPath, item) ==
  IF IsAbsolute(dirPath)
  THEN <<Empty>> \o NormalizeSegs(dirPath \o <<item>>, <<>>)
  ELSE NormalizeRel(dirPath \o <<item>>, <<>>)

RECURSIVE StripTrailingEmpty(_)
StripTrailingEmpty(p) ==
  IF p # <<>> /\ p[Len(p)] = Empty THEN StripTrailingEmpty(SubSeq(p, 1, Len(p) - 1))
  ELSE p

\* path.basename(p): trailing separators are skipped, then the last segment.
Basename(p) ==
  LET q == StripTrailingEmpty(p) IN IF q = <<>> THEN Empty ELSE q[Len(q)]

DotPositions(name) == {i \in DOMAIN name : name[i] = "."}

LastDot(name) == CHOOSE i \in DotPositions(name) : \A j \in DotPositions(name) : j <= i

\* path.extname(name) for a name without separators: from the last "." on,
\* empty when there is no ".", when the only "." leads the name, or for "..".
Extname(name) ==
  IF DotPositions(name) = {} THEN Empty
  ELSE IF LastDot(name) = 1 THEN Empty
  ELSE IF name = DotDot THEN Empty
  ELSE SubSeq(name, LastDot(name), Len(name))

\* ------------------------------------------------------------------------
\* fs-extra calls
\* ------------------------------------------------------------------------

\* fs.pathExists(full): the node exists; a trailing separator needs a directory
PathExists(f, full) ==
  /\ full.segs \in DOMAIN f
  /\ full.trail => f[full.segs].kind = "dir"

\* fs.stat(path).size
StatSize(f, segs) == f[segs].size

IsPrefix(a, b) == Len(a) <= Len(b) /\ SubSeq(b, 1, Len(a)) = a

\* The permutations of a sequence: the orders fs.readdir may report.
Perms(s) ==
  {[i \in DOMAIN s |-> s[f[i]]] :
     f \in {g \in [DOMAIN s -> DOMAIN s] : \A i, j \in DOMAIN s : i # j => g[i] # g[j]}}

\* ------------------------------------------------------------------------
\* String.prototype.localeCompare, restricted to ".", letters
\* ------------------------------------------------------------------------

\* primary collation weight: punctuation before letters, letters by alphabet
Primary(c) == LetterIndex(c)

\* tertiary weight: a lower-case letter before its upper-case form
Tertiary(c) == IF IsUpper(c) THEN 1 ELSE 0

\* lexicographic comparison of two weight sequences: -1, 0 or 1
RECURSIVE LexCompare(_, _)
LexCompare(a, b) ==
  IF a = <<>> /\ b = <<>> THEN 0
  ELSE IF a = <<>> THEN -1
  ELSE IF b = <<>> THEN 1
  ELSE IF Head(a) < Head(b) THEN -1
  ELSE IF Head(a) > Head(b) THEN 1
  ELSE LexCompare(Tail(a), Tail(b))

LocaleCompare(a, b) ==
  LET p == LexCompare([i \in DOMAIN a |-> Primary(a[i])], [i \in DOMAIN b |-> Primary(b[i])])
  IN IF p # 0 THEN p
     ELSE LexCompare([i \in DOMAIN a |-> Tertiary(a[i])], [i \in DOMAIN b |-> Tertiary(b[i])])

\* ------------------------------------------------------------------------
\* FileService.listDirectory
\* ------------------------------------------------------------------------

\* _getItemInfo(fullPath, item, dirPath)
GetItemInfo(f, full, item, dirPath) ==
  LET itemPath == Append(full.segs, item)
  IN [name |-> item,
      path |-> JoinLogical(dirPath, item),
      isFolder |-> f[itemPath].kind = "dir",
      size |-> StatSize(f, itemPath)]

\* a comparator that forgets the folder test
CompareNameOnly(a, b) == LocaleCompare(a.name, b.name)

\* the comparator of _sortItems
Compare(a, b) ==
  IF a.isFolder /\ ~b.isFolder THEN -1
  ELSE IF ~a.isFolder /\ b.isFolder THEN 1
  ELSE LocaleCompare(a.name, b.name)

\* Array.prototype.sort (stable): insertion of x after the entries not above it
RECURSIVE Insert(_, _)
Insert(x, sorted) ==
  IF sorted = <<>> THEN <<x>>
  ELSE IF Compare(Head(sorted), x) <= 0 THEN <<Head(sorted)>> \o Insert(x, Tail(sorted))
  ELSE <<x>> \o sorted

RECURSIVE SortFrom(_, _)
SortFrom(items, acc) ==
  IF items = <<>> THEN acc ELSE SortFrom(Tail(items), Insert(Head(items), acc))

\* a sort that leaves the items as they came
SortItemsNone(items) == items

\* _sortItems(items)
SortItems(items) == SortFrom(items, <<>>)

\* ------------------------------------------------------------------------
\* State
\* ------------------------------------------------------------------------

VARIABLES
  fs,            \* the filesystem: absolute path -> node
  pc,            \* "idle", "file_stream", "zip_stream", "zip_errored", "done"
  req,           \* the request being served: [op, path]
  local,         \* fullPath and itemName of the service call
  listing,       \* readdir's names and the _getItemInfo promises of a listing
  result,        \* how the FileService call settled
  reply,         \* the Fastify reply and the raw response behind it
  archive,       \* the archiver instance of a directory download
  stream,        \* the read stream of a file download
  accessed,      \* absolute paths the request's fs calls have touched
  log,           \* console.error / fastify.log.error lines of the request
  clientClosed,  \* the client has closed the connection
  server,        \* the backend process: how far startServer has come
  browser,       \* the FileBrowserComponent of one browser tab
  pair           \* two requests the server is serving at the same time

vars == <<fs, pc, req, local, listing, result, reply, archive, stream, accessed, log, clientClosed,
          server, browser, pair>>

\* what the handling of one request leaves alone
aside == <<server, browser, pair>>

NoHeaders == [h \in {} |-> ""]

\* query.path absent
NoPath == <<>>

NewReply ==
  [statusCode |-> 200,        \* reply.code()/reply.status()
   headers |-> NoHeaders,     \* reply.header()/reply.type()
   rawHeaders |-> NoHeaders,  \* reply.raw.setHeader()
   headersSent |-> FALSE,     \* status line and headers are on the wire
   wireStatus |-> 0,
   wireHeaders |-> NoHeaders,
   payload |-> <<>>,          \* serialized payload written by reply.send
   bytes |-> <<>>,            \* file bytes written
   zip |-> <<>>,              \* archive entries written
   trailer |-> 0,             \* ZIP central directories written
   ended |-> FALSE,           \* the response was ended
   destroyed |-> FALSE,       \* the socket was destroyed
   sends |-> <<>>]            \* every payload handed to reply.send

NoResult == [status |-> "none", message |-> <<>>, items |-> <<>>, content |-> <<>>, size |-> 0]

OkResult == [NoResult EXCEPT !.status = "ok"]

\* throw new Error(`${prefix}${inner}`) out of the service method
ErrorResult(prefix, inner) == [NoResult EXCEPT !.status = "error", !.message = <<prefix, inner>>]

\* fullPath, itemName and stats.size of the service call, and the changes
\* another process has made to its target meanwhile
NoLocal ==
  [fullPath |-> [segs |-> <<>>, trail |-> FALSE], itemName |-> Empty, size |-> 0, changes |-> 0]

\* the slot of a _getItemInfo promise that has not fulfilled
NoInfo == [name |-> Empty, path |-> <<>>, isFolder |-> FALSE, size |-> 0]

\* a listing in progress: the names readdir reported, one slot per
\* _getItemInfo promise, the promises not settled yet, whether one rejected,
\* the promise that settled last and the children removed meanwhile
NoListing ==
  [order |-> <<>>, infos |-> <<>>, pending |-> {}, rejected |-> FALSE, last |-> 0, deletes |-> 0]

\* startServer has run to the end: initialised and listening
Listening == [pc |-> "listening", exitCode |-> 0, initialized |-> TRUE, failed |-> FALSE]

\* FileBrowserComponent as constructed: currentPath '/', no items, not
\* loading, no error; no list request sent yet
NoBrowser ==
  [currentPath |-> <<Empty, Empty>>, loading |-> FALSE, error |-> "null", items |-> <<>>,
   inflight |-> {}, loads |-> 0]

\* a service call that has not been made: its arguments and its locals
NoSlot ==
  [op |-> "none", path |-> NoPath, pc |-> "idle",
   fullPath |-> [segs |-> <<>>, trail |-> FALSE], result |-> NoResult]

\* the two calls a server may have in progress at once, neither made yet
NoPair == <<NoSlot, NoSlot>>

NoArchive == [queue |-> <<>>, buffered |-> 0, errored |-> FALSE]

NoStream == [src |-> <<>>, offset |-> 0, state |-> "none"]

ErrorPayload(err, msg, code) ==
  [type |-> "error", error |-> err, message |-> msg, statusCode |-> code,
   items |-> <<>>, content |-> <<>>]

ItemsPayload(items) ==
  [type |-> "items", error |-> "", message |-> <<>>, statusCode |-> 0,
   items |-> items, content |-> <<>>]

TextPayload(content) ==
  [type |-> "text", error |-> "", message |-> <<>>, statusCode |-> 0,
   items |-> <<>>, content |-> content]

\* error.message.includes('not found')
IncludesNotFound(message) ==
  \E i \in DOMAIN message :
    message[i] \in {"Directory not found", "File not found", "Item not found"}

\* reply.header(name, value)
ReplyHeader(r, name, value) == [r EXCEPT !.headers = (name :> value) @@ @]

\* reply.raw.setHeader(name, value)
RawSetHeader(r, name, value) == [r EXCEPT !.rawHeaders = (name :> value) @@ @]

\* reply.code(n) / reply.status(n)
ReplyCode(r, n) == [r EXCEPT !.statusCode = n]

\* reply.send(payload) with a serializable payload: writes the head (the
\* reply's headers over the raw ones) and the payload and ends the response.
\* Nothing reaches the wire once the response has ended or its head was
\* written by a pipe into reply.raw.
ReplySend(r, payload) ==
  IF r.ended \/ r.destroyed \/ r.headersSent
  THEN [r EXCEPT !.sends = Append(@, payload)]
  ELSE [r EXCEPT !.sends = Append(@, payload),
                 !.headersSent = TRUE,
                 !.wireStatus = r.statusCode,
                 !.wireHeaders = r.headers @@ r.rawHeaders,
                 !.payload = <<payload>>,
                 !.ended = TRUE]

\* no request has been dispatched yet; requests share no state, so one
\* request is followed from its arrival to the end of its response
Idle == pc = "idle"

Init ==
  /\ fs = InitialFs
  /\ pc = "idle"
  /\ req = [op |-> "none", path |-> NoPath]
  /\ local = NoLocal
  /\ listing = NoListing
  /\ result = NoResult
  /\ reply = NewReply
  /\ archive = NoArchive
  /\ stream = NoStream
  /\ accessed = {}
  /\ log = <<>>
  /\ clientClosed = FALSE
  /\ server = Listening
  /\ browser = NoBrowser
  /\ pair = NoPair

\* ------------------------------------------------------------------------
\* GET /list -> FileController.listDirectory -> FileService.listDirectory
\* ------------------------------------------------------------------------

\* prechecks that throw one error for both cases
ListPrecheckOneError(f, dirPath) ==
  LET full == Join(dataDir, dirPath)
      prefix == "Failed to list directory: "
  IN IF ~PathExists(f, full) \/ f[full.segs].kind # "dir"
     THEN ErrorResult(prefix, "Directory not found")
     ELSE OkResult

\* the checks of listDirectory before readdir: how the call has settled when
\* one of them throws, OkResult when it goes on to readdir
ListPrecheck(f, dirPath) ==
  LET full == Join(dataDir, dirPath)
      prefix == "Failed to list directory: "
  IN IF ~PathExists(f, full) THEN ErrorResult(prefix, "Directory not found")
     ELSE IF f[full.segs].kind # "dir" THEN ErrorResult(prefix, "Path is not a directory")
     ELSE OkResult

\* a Promise.all that drops the rejected promises
PromiseAllSkipRejected(infos, rejected) ==
  [status |-> "fulfilled",
   values |-> SelectSeq(infos, LAMBDA x : x.name # Empty)]

\* Promise.all over the _getItemInfo promises: rejected as soon as one is,
\* else fulfilled with the values in the order of the promises
PromiseAll(infos, rejected) ==
  IF rejected THEN [status |-> "rejected", values |-> <<>>]
  ELSE [status |-> "fulfilled", values |-> infos]

\* FileService.listDirectory(dirPath) on a filesystem that holds still, with
\* readdir reporting `order`: the settled result and the paths touched.
ListDirectory(f, dirPath, order) ==
  LET full == Join(dataDir, dirPath)
      pre == ListPrecheck(f, dirPath)
  IN IF pre.status = "error"
     THEN [result |-> pre, touched |-> {full.segs}]
     ELSE [result |-> [OkResult EXCEPT !.items =
                         SortItems([i \in DOMAIN order |-> GetItemInfo(f, full, order[i], dirPath)])],
           touched |-> {full.segs} \cup {Append(full.segs, order[i]) : i \in DOMAIN order}]

\* the orders readdir may report for dirPath (one empty order when it is no directory)
ReaddirOrders(f, dirPath) ==
  LET full == Join(dataDir, dirPath)
  IN IF PathExists(f, full) /\ f[full.segs].kind = "dir" THEN Perms(f[full.segs].entries)
     ELSE {<<>>}

\* a /list catch that maps 'not found' to 404 as the other routes do
ListErrorStatusNotFound(message) == IF IncludesNotFound(message) THEN 404 ELSE 500

\* the status the /list route answers a failed listDirectory with
ListErrorStatus(message) == 500

\* the route's catch: log and reply.status(500).send({error, message, statusCode})
ListCatch(r, message) ==
  ReplySend(ReplyCode(r, ListErrorStatus(message)),
            ErrorPayload("Failed to list directory", message, ListErrorStatus(message)))

\* const { path: dirPath = '/' } = request.query
DirPathOf(p) == IF p = NoPath THEN <<Empty, Empty>> ELSE p

\* the handler up to Promise.all: the prechecks, readdir and one stat issued
\* per name; a failed precheck is answered at once
ListRequest(p) ==
  /\ Idle
  /\ UNCHANGED aside
  /\ LET dirPath == DirPathOf(p)
         full == Join(dataDir, dirPath)
         pre == ListPrecheck(fs, dirPath)
     IN /\ req' = [op |-> "list", path |-> p]
        /\ local' = [NoLocal EXCEPT !.fullPath = full]
        /\ IF pre.status = "error"
           THEN /\ result' = pre
                /\ accessed' = {full.segs}
                /\ reply' = ListCatch(NewReply, pre.message)
                /\ log' = <<"Error listing directory", "List directory error">>
                /\ listing' = NoListing
                /\ pc' = "done"
           ELSE \E order \in ReaddirOrders(fs, dirPath) :
                  /\ result' = NoResult
                  /\ accessed' = {full.segs} \cup {Append(full.segs, order[i]) : i \in DOMAIN order}
                  /\ reply' = NewReply
                  /\ log' = <<>>
                  /\ listing' = [NoListing EXCEPT !.order = order,
                                                  !.infos = [i \in DOMAIN order |-> NoInfo],
                                                  !.pending = DOMAIN order]
                  /\ pc' = "list_stat"
  /\ clientClosed' = FALSE
  /\ UNCHANGED <<fs, archive, stream>>

\* the fs.stat of one child completes, in any order among the pending ones:
\* its promise fulfils with the item's info, or rejects when the child is gone
StatChild(i) ==
  /\ pc = "list_stat"
  /\ UNCHANGED aside
  /\ ~listing.rejected
  /\ i \in listing.pending
  /\ LET full == local.fullPath
         item == listing.order[i]
     IN listing' =
          IF Append(full.segs, item) \in DOMAIN fs
          THEN [listing EXCEPT !.pending = @ \ {i}, !.last = i,
                               !.infos[i] = GetItemInfo(fs, full, item, DirPathOf(req.path))]
          ELSE [listing EXCEPT !.pending = @ \ {i}, !.last = i, !.rejected = TRUE]
  /\ UNCHANGED <<fs, pc, req, local, result, reply, archive, stream, accessed, log, clientClosed>>

\* another process removes a child of the directory between readdir and the
\* completion of the child's stat (a removal after it cannot reach the listing)
DeleteChild(i) ==
  /\ pc = "list_stat"
  /\ UNCHANGED aside
  /\ ~listing.rejected
  /\ listing.deletes < MaxDeletes
  /\ i \in listing.pending
  /\ LET dir == local.fullPath.segs
         gone == Append(dir, listing.order[i])
     IN /\ gone \in DOMAIN fs
        /\ fs' = [q \in {x \in DOMAIN fs : ~IsPrefix(gone, x)} |->
                    IF q = dir
                    THEN [fs[q] EXCEPT !.entries = SelectSeq(@, LAMBDA n : n # listing.order[i])]
                    ELSE fs[q]]
  /\ listing' = [listing EXCEPT !.deletes = @ + 1]
  /\ UNCHANGED <<pc, req, local, result, reply, archive, stream, accessed, log, clientClosed>>

\* Promise.all has settled: sort and reply.send(items), or the catch of the
\* service, of the controller and of the route
ListSettle ==
  /\ pc = "list_stat"
  /\ UNCHANGED aside
  /\ listing.rejected \/ listing.pending = {}
  /\ LET all == PromiseAll(listing.infos, listing.rejected)
     IN IF all.status = "fulfilled"
        THEN /\ result' = [OkResult EXCEPT !.items = SortItems(all.values)]
             /\ reply' = ReplySend(reply, ItemsPayload(SortItems(all.values)))
             /\ log' = <<>>
        ELSE /\ result' = ErrorResult("Failed to list directory: ", "ENOENT: no such file or directory, stat")
             /\ reply' = ListCatch(reply, <<"Failed to list directory: ", "ENOENT: no such file or directory, stat">>)
             /\ log' = <<"Error listing directory", "List directory error">>
  /\ pc' = "done"
  /\ UNCHANGED <<fs, req, local, listing, archive, stream, accessed, clientClosed>>

\* ------------------------------------------------------------------------
\* GET /file -> FileController.getFileContent -> FileService.getFileContent
\* ------------------------------------------------------------------------

\* a getFileContent that throws one error for a directory and a missing path
GetFileContentOneError(f, filePath) ==
  LET full == Join(dataDir, filePath)
      prefix == "Failed to read file: "
  IN IF ~PathExists(f, full) \/ f[full.segs].kind = "dir"
     THEN ErrorResult(prefix, "File not found")
     ELSE [OkResult EXCEPT !.content = f[full.segs].content, !.size = StatSize(f, full.segs)]

\* FileService.getFileContent(filePath)
GetFileContent(f, filePath) ==
  LET full == Join(dataDir, filePath)
      prefix == "Failed to read file: "
  IN IF ~PathExists(f, full)
     THEN ErrorResult(prefix, "File not found")
     ELSE IF f[full.segs].kind = "dir"
     THEN ErrorResult(prefix, "Path is a directory, not a file")
     ELSE [OkResult EXCEPT !.content = f[full.segs].content, !.size = StatSize(f, full.segs)]

\* the catch of the /file handler
FileCatch(r, message) ==
  IF IncludesNotFound(message)
  THEN ReplySend(ReplyCode(r, 404), ErrorPayload("File not found", message, 404))
  ELSE ReplySend(ReplyCode(r, 500), ErrorPayload("Failed to read file", message, 500))

FilePrefix == "Failed to read file: "

\* the message of the error fs.stat, fs.readFile and fs.createReadStream
\* throw for a path that is not there
Enoent == "ENOENT: no such file or directory"

\* the handler up to the await of fs.stat: the 400 of the route, or
\* path.join and fs.pathExists
FileRequest(p) ==
  /\ Idle
  /\ UNCHANGED aside
  /\ req' = [op |-> "file", path |-> p]
  /\ IF p = NoPath \/ p = <<Empty>>
     THEN /\ reply' = ReplySend(ReplyCode(NewReply, 400),
                        ErrorPayload("File path is required", <<>>, 400))
          /\ result' = NoResult
          /\ local' = NoLocal
          /\ accessed' = {}
          /\ log' = <<>>
          /\ pc' = "done"
     ELSE LET r == GetFileContent(fs, p)
          IN /\ local' = [NoLocal EXCEPT !.fullPath = Join(dataDir, p)]
             /\ accessed' = {Join(dataDir, p).segs}
             /\ IF ~PathExists(fs, Join(dataDir, p))
                THEN /\ result' = r
                     /\ reply' = FileCatch(NewReply, r.message)
                     /\ log' = <<"Error getting file content", "Get file content error">>
                     /\ pc' = "done"
                ELSE /\ result' = NoResult
                     /\ reply' = NewReply
                     /\ log' = <<>>
                     /\ pc' = "file_stat"
  /\ clientClosed' = FALSE
  /\ UNCHANGED <<fs, listing, archive, stream>>

\* fs.stat(fullPath) settles: ENOENT when the target is gone, the directory
\* test, else stats.size is kept for the result
FileStat ==
  /\ pc = "file_stat"
  /\ UNCHANGED aside
  /\ LET r == GetFileContent(fs, req.path)
     IN IF ~PathExists(fs, local.fullPath) \/ r.status = "error"
        THEN LET e == IF ~PathExists(fs, local.fullPath) THEN ErrorResult(FilePrefix, Enoent) ELSE r
             IN /\ result' = e
                /\ reply' = FileCatch(reply, e.message)
                /\ log' = <<"Error getting file content", "Get file content error">>
                /\ pc' = "done"
                /\ local' = local
        ELSE /\ local' = [local EXCEPT !.size = r.size]
             /\ pc' = "file_read"
             /\ UNCHANGED <<result, reply, log>>
  /\ UNCHANGED <<fs, req, listing, archive, stream, accessed, clientClosed>>

\* fs.readFile(fullPath, 'utf8') settles and the handler sends the content
\* as text/plain; the result carries the size fs.stat reported
FileRead ==
  /\ pc = "file_read"
  /\ UNCHANGED aside
  /\ IF ~PathExists(fs, local.fullPath)
     THEN /\ result' = ErrorResult(FilePrefix, Enoent)
          /\ reply' = FileCatch(reply, <<FilePrefix, Enoent>>)
          /\ log' = <<"Error getting file content", "Get file content error">>
     ELSE LET r == [GetFileContent(fs, req.path) EXCEPT !.size = local.size]
          IN /\ result' = r
             /\ reply' = ReplySend(ReplyHeader(reply, "Content-Type", "text/plain"),
                                   TextPayload(r.content))
             /\ log' = <<>>
  /\ pc' = "done"
  /\ UNCHANGED <<fs, req, local, listing, archive, stream, accessed, clientClosed>>

\* the request's target is a path another process may change now: between
\* the existence check and the stat, or between the stat and the read
TargetExposed ==
  /\ pc \in {"file_stat", "file_read", "download_stat"}
  /\ local.changes < MaxChanges
  /\ PathExists(fs, local.fullPath)
  /\ local.fullPath.segs # <<>>

\* another process removes the target of the request, with what is below it
RemoveTarget ==
  /\ TargetExposed
  /\ UNCHANGED aside
  /\ LET gone == local.fullPath.segs
         dir == SubSeq(gone, 1, Len(gone) - 1)
     IN fs' = [q \in {x \in DOMAIN fs : ~IsPrefix(gone, x)} |->
                 IF q = dir
                 THEN [fs[q] EXCEPT !.entries = SelectSeq(@, LAMBDA n : n # gone[Len(gone)])]
                 ELSE fs[q]]
  /\ local' = [local EXCEPT !.changes = @ + 1]
  /\ UNCHANGED <<pc, req, listing, result, reply, archive, stream, accessed, log, clientClosed>>

\* another process appends a byte to the file the request is reading
ModifyTarget ==
  /\ TargetExposed
  /\ UNCHANGED aside
  /\ pc \in {"file_stat", "file_read"}
  /\ fs[local.fullPath.segs].kind = "file"
  /\ fs' = [fs EXCEPT ![local.fullPath.segs] = FileNode(Append(@.content, 0))]
  /\ local' = [local EXCEPT !.changes = @ + 1]
  /\ UNCHANGED <<pc, req, listing, result, reply, archive, stream, accessed, log, clientClosed>>

\* ------------------------------------------------------------------------
\* GET /download -> FileController.downloadItem -> FileService.downloadItem
\* ------------------------------------------------------------------------

\* the contentTypes table of _downloadFile: <<extension, MIME type>>
ContentTypes ==
  {<< <<".","t","x","t">>, "text/plain" >>,
   << <<".","j","s","o","n">>, "application/json" >>,
   << <<".","c","s","v">>, "text/csv" >>,
   << <<".","m","d">>, "text/markdown" >>,
   << <<".","y","a","m","l">>, "application/x-yaml" >>,
   << <<".","y","m","l">>, "application/x-yaml" >>,
   << <<".","x","m","l">>, "application/xml" >>,
   << <<".","h","t","m","l">>, "text/html" >>,
   << <<".","c","s","s">>, "text/css" >>,
   << <<".","j","s">>, "application/javascript" >>,
   << <<".","p","n","g">>, "image/png" >>,
   << <<".","j","p","g">>, "image/jpeg" >>,
   << <<".","j","p","e","g">>, "image/jpeg" >>,
   << <<".","g","i","f">>, "image/gif" >>,
   << <<".","p","d","f">>, "application/pdf" >>,
   << <<".","z","i","p">>, "application/zip" >>}

\* contentTypes[ext], or the default when ext is no key
Lookup(ext) ==
  IF \E e \in ContentTypes : e[1] = ext
  THEN (CHOOSE e \in ContentTypes : e[1] = ext)[2]
  ELSE "application/octet-stream"

\* a lookup that leaves the extension in the case it was written
ContentTypeCaseSensitive(itemName) == Lookup(Extname(itemName))

\* the content type _downloadFile selects for itemName
ContentType(itemName) == Lookup(ToLowerCase(Extname(itemName)))

Attachment(filename) == [type |-> "attachment", filename |-> filename]

ZipSuffix == <<".","z","i","p">>

\* the walk of archive.directory(dir, ...): every node below dir, parents
\* before children, each directory in its on-disk order; rel is the path
\* relative to dir.
RECURSIVE WalkEntries(_, _, _, _)
WalkEntries(f, dir, rel, names) ==
  IF names = <<>> THEN <<>>
  ELSE LET n == Head(names)
           src == Append(dir, n)
           here == [src |-> src, name |-> Append(rel, n), kind |-> f[src].kind,
                    content |-> f[src].content]
           below == IF f[src].kind = "dir"
                    THEN WalkEntries(f, src, Append(rel, n), f[src].entries)
                    ELSE <<>>
       IN <<here>> \o below \o WalkEntries(f, dir, rel, Tail(names))

\* archiver's sanitizePath on an entry name: leading ".." and empty segments go
RECURSIVE SanitizePath(_)
SanitizePath(name) ==
  IF name # <<>> /\ (Head(name) = DotDot \/ Head(name) = Empty)
  THEN SanitizePath(Tail(name))
  ELSE name

\* an archive.directory that drops the destination folder
DirectoryNoPrefix(f, fullSegs, itemName) ==
  LET walked == WalkEntries(f, fullSegs, <<>>, f[fullSegs].entries)
  IN [i \in DOMAIN walked |-> walked[i]]

\* archive.directory(fullPath, itemName): the entries queued, named
\* itemName/<relative path>
Directory(f, fullSegs, itemName) ==
  LET walked == WalkEntries(f, fullSegs, <<>>, f[fullSegs].entries)
  IN [i \in DOMAIN walked |->
        [walked[i] EXCEPT !.name = SanitizePath(<<itemName>> \o walked[i].name)]]

\* const itemName = path.basename(itemPath)
ItemName(itemPath) == Basename(itemPath)

\* the first write through a pipe into reply.raw: the head goes out with the
\* status code and the headers set on reply.raw alone
PipeCommit(r) ==
  IF r.headersSent THEN r
  ELSE [r EXCEPT !.headersSent = TRUE, !.wireStatus = r.statusCode,
                 !.wireHeaders = r.rawHeaders]

\* the first write of reply.send(stream): the head goes out with the reply's
\* headers over the ones set on reply.raw
StreamCommit(r) ==
  IF r.headersSent THEN r
  ELSE [r EXCEPT !.headersSent = TRUE, !.wireStatus = r.statusCode,
                 !.wireHeaders = r.headers @@ r.rawHeaders]

\* the route's catch block for an error of downloadItem
DownloadCatch(r, message) ==
  IF IncludesNotFound(message)
  THEN ReplySend(ReplyCode(r, 404), ErrorPayload("Item not found", message, 404))
  ELSE ReplySend(ReplyCode(r, 500), ErrorPayload("Failed to download item", message, 500))

DownloadPrefix == "Failed to download item: "

\* reply.header('Cache-Control', 'no-cache'); reply.header('Pragma', 'no-cache')
CommonHeaders(r) == ReplyHeader(ReplyHeader(r, "Cache-Control", "no-cache"), "Pragma", "no-cache")

\* a downloadItem that sets the common headers before it looks for the item
DownloadItemHeadersFirst(f, full, r) ==
  [thrown |-> ~PathExists(f, full), reply |-> CommonHeaders(r)]

\* downloadItem up to the branch on the kind of the item: 'Item not found'
\* is thrown before the reply is touched, the common headers are set after
DownloadItemUntilStat(f, full, r) ==
  IF ~PathExists(f, full) THEN [thrown |-> TRUE, reply |-> r]
  ELSE [thrown |-> FALSE, reply |-> CommonHeaders(r)]

\* options.dataDir as the /download handler reads it: setupApiRoutes
\* registers fileRoutes with { fileController } alone
RouteDataDir == "undefined"

\* path.join(dataDir, itemPath) in the handler: a TypeError for a dataDir
\* that is no string
RouteJoin(base, p) ==
  IF base = "undefined" THEN [thrown |-> TRUE, full |-> NoLocal.fullPath]
  ELSE [thrown |-> FALSE, full |-> Join(base, p)]

InfoPayload(itemName, isDirectory, size) ==
  [type |-> "info", error |-> "", message |-> <<"Download available">>, statusCode |-> 0,
   items |-> <<>>, content |-> <<>>,
   itemName |-> itemName, isDirectory |-> isDirectory, size |-> size]

\* GET /download with Accept: application/json: the branch that answers
\* with a description of the download instead of the download
DownloadInfoRequest(p) ==
  /\ Idle
  /\ UNCHANGED aside
  /\ p # NoPath
  /\ req' = [op |-> "download_info", path |-> p]
  /\ clientClosed' = FALSE
  /\ local' = NoLocal
  /\ IF p = <<Empty>>
     THEN /\ reply' = ReplySend(ReplyCode(NewReply, 400),
                        ErrorPayload("Item path is required", <<>>, 400))
          /\ result' = NoResult
          /\ accessed' = {}
          /\ log' = <<>>
     ELSE LET j == RouteJoin(RouteDataDir, p)
          IN IF j.thrown
             THEN /\ result' = NoResult
                  /\ reply' = DownloadCatch(NewReply, <<"The \"path\" argument must be of type string">>)
                  /\ accessed' = {}
                  /\ log' = <<"Download item error">>
             ELSE /\ accessed' = {j.full.segs}
                  /\ log' = <<>>
                  /\ IF ~PathExists(fs, j.full)
                     THEN /\ result' = NoResult
                          /\ reply' = ReplySend(ReplyCode(NewReply, 404),
                                        ErrorPayload("Item not found", <<"does not exist">>, 404))
                     ELSE /\ result' = NoResult
                          /\ reply' = ReplySend(NewReply,
                                        InfoPayload(Basename(p), fs[j.full.segs].kind = "dir",
                                                    StatSize(fs, j.full.segs)))
  /\ pc' = "done"
  /\ UNCHANGED <<fs, listing, archive, stream>>

\* the handler up to the await of fs.stat: the 400 of the route, or
\* path.join and fs.pathExists in downloadItem
DownloadRequest(p) ==
  /\ Idle
  /\ UNCHANGED aside
  /\ p # NoPath
  /\ req' = [op |-> "download", path |-> p]
  /\ clientClosed' = FALSE
  /\ UNCHANGED <<fs, listing, archive, stream>>
  /\ IF p = <<Empty>>
     THEN \* if (!itemPath) return reply.status(400).send(...)
          /\ reply' = ReplySend(ReplyCode(NewReply, 400),
                        ErrorPayload("Item path is required", <<>>, 400))
          /\ result' = NoResult
          /\ local' = NoLocal
          /\ accessed' = {}
          /\ log' = <<>>
          /\ pc' = "done"
     ELSE LET full == Join(dataDir, p)
              head == DownloadItemUntilStat(fs, full, NewReply)
          IN /\ local' = [NoLocal EXCEPT !.fullPath = full]
             /\ accessed' = {full.segs}
             /\ IF head.thrown
                THEN /\ result' = ErrorResult(DownloadPrefix, "Item not found")
                     /\ reply' = DownloadCatch(head.reply, <<DownloadPrefix, "Item not found">>)
                     /\ log' = <<"Error downloading item", "Download item error">>
                     /\ pc' = "done"
                ELSE /\ result' = NoResult
                     /\ reply' = NewReply
                     /\ log' = <<>>
                     /\ pc' = "download_stat"

\* fs.stat(fullPath) settles: ENOENT when the item is gone, else itemName,
\* the common headers and the branch on stats.isFile(), up to the first
\* suspension of the stream or the archive
DownloadStat ==
  /\ pc = "download_stat"
  /\ UNCHANGED aside
  /\ UNCHANGED <<fs, req, listing, accessed, clientClosed>>
  /\ IF ~PathExists(fs, local.fullPath)
     THEN /\ result' = ErrorResult(DownloadPrefix, Enoent)
          /\ reply' = DownloadCatch(reply, <<DownloadPrefix, Enoent>>)
          /\ log' = <<"Error downloading item", "Download item error">>
          /\ pc' = "done"
          /\ UNCHANGED <<local, archive, stream>>
     ELSE LET full == local.fullPath
              itemName == ItemName(req.path)
              common == DownloadItemUntilStat(fs, full, reply).reply
          IN /\ local' = [local EXCEPT !.itemName = itemName, !.size = StatSize(fs, full.segs)]
             /\ result' = NoResult
             /\ log' = <<>>
             /\ IF fs[full.segs].kind = "file"
                THEN \* _downloadFile: headers, reply.code(200), reply.send(stream)
                     /\ reply' = ReplyCode(
                                   RawSetHeader(
                                     RawSetHeader(common, "Content-Disposition", Attachment(itemName)),
                                     "Content-Type", ContentType(itemName)),
                                   200)
                     /\ stream' = [src |-> full.segs, offset |-> 0, state |-> "open"]
                     /\ archive' = NoArchive
                     /\ pc' = "file_stream"
                ELSE \* _downloadDirectory: headers, archive.directory, pipe, finalize
                     /\ reply' = ReplyCode(
                                   RawSetHeader(
                                     RawSetHeader(
                                       RawSetHeader(common, "Content-Disposition",
                                                    Attachment(itemName \o ZipSuffix)),
                                       "Content-Type", "application/zip"),
                                     "Content-Transfer-Encoding", "binary"),
                                   200)
                     /\ archive' = [queue |-> Directory(fs, full.segs, itemName),
                                    buffered |-> 0, errored |-> FALSE]
                     /\ stream' = NoStream
                     /\ pc' = "zip_stream"

Min(a, b) == IF a < b THEN a ELSE b

\* the read stream hands the next chunk to the response
FileChunk ==
  /\ pc = "file_stream"
  /\ UNCHANGED aside
  /\ stream.offset < Len(fs[stream.src].content)
  /\ LET content == fs[stream.src].content
         upto == Min(stream.offset + ChunkSize, Len(content))
     IN /\ reply' = [StreamCommit(reply) EXCEPT
                       !.bytes = @ \o SubSeq(content, stream.offset + 1, upto)]
        /\ stream' = [stream EXCEPT !.offset = upto]
  /\ accessed' = accessed \cup {stream.src}
  /\ UNCHANGED <<fs, pc, req, local, listing, result, archive, log, clientClosed>>

\* the read stream ends: the response ends and the awaited reply settles
FileEnd ==
  /\ pc = "file_stream"
  /\ UNCHANGED aside
  /\ stream.offset = Len(fs[stream.src].content)
  /\ reply' = [StreamCommit(reply) EXCEPT !.ended = TRUE]
  /\ stream' = [stream EXCEPT !.state = "ended"]
  /\ result' = OkResult
  /\ pc' = "done"
  /\ accessed' = accessed \cup {stream.src}
  /\ UNCHANGED <<fs, req, local, listing, archive, log, clientClosed>>

\* the read stream fails: Fastify destroys a started response, and answers
\* through the application's error handler when nothing was sent yet
FileReadError ==
  /\ pc = "file_stream"
  /\ UNCHANGED aside
  /\ stream.offset < Len(fs[stream.src].content)
  /\ IF reply.headersSent
     THEN reply' = [reply EXCEPT !.destroyed = TRUE]
     ELSE reply' = ReplySend(ReplyCode(reply, 500), ErrorPayload("read error", <<>>, 500))
  /\ log' = Append(log, "stream error")
  /\ stream' = [stream EXCEPT !.state = "errored"]
  /\ result' = OkResult
  /\ pc' = "done"
  /\ UNCHANGED <<fs, req, local, listing, archive, accessed, clientClosed>>

\* the client goes away during a download: the socket closes; Fastify
\* destroys the stream of reply.send, a pipe into reply.raw is unpiped
ClientClose ==
  /\ pc \in {"file_stream", "zip_stream", "zip_errored"}
  /\ UNCHANGED aside
  /\ ~clientClosed
  /\ clientClosed' = TRUE
  /\ reply' = [reply EXCEPT !.destroyed = TRUE]
  /\ IF pc = "file_stream"
     THEN /\ pc' = "done"
          /\ result' = OkResult
          /\ stream' = [stream EXCEPT !.state = "destroyed"]
     ELSE UNCHANGED <<pc, result, stream>>
  /\ UNCHANGED <<fs, req, local, listing, archive, accessed, log>>

\* the archive can take its next step: it is piped, or unpiped with room left
ArchiveFlowing == clientClosed => archive.buffered < HighWaterMark

\* the archive reads and compresses its next entry
ZipStep ==
  /\ pc = "zip_stream"
  /\ UNCHANGED aside
  /\ archive.queue # <<>>
  /\ ArchiveFlowing
  /\ LET e == Head(archive.queue)
     IN /\ accessed' = accessed \cup {e.src}
        /\ IF clientClosed
           THEN /\ archive' = [archive EXCEPT !.queue = Tail(@), !.buffered = @ + 1]
                /\ reply' = reply
           ELSE /\ archive' = [archive EXCEPT !.queue = Tail(@)]
                /\ reply' = [PipeCommit(reply) EXCEPT !.zip = Append(@, e)]
  /\ UNCHANGED <<fs, pc, req, local, listing, result, stream, log, clientClosed>>

\* a finalize that signals completion without writing the central directory
ZipFinalizeNoTrailer ==
  /\ pc = "zip_stream"
  /\ UNCHANGED aside
  /\ archive.queue = <<>>
  /\ ArchiveFlowing
  /\ IF clientClosed
     THEN reply' = reply
     ELSE reply' = [PipeCommit(reply) EXCEPT !.ended = TRUE]
  /\ result' = OkResult
  /\ pc' = "done"
  /\ UNCHANGED <<fs, req, local, listing, archive, stream, accessed, log, clientClosed>>

\* every entry is written: the central directory goes out, the pipe ends the
\* response and archive.finalize() resolves
ZipFinalize ==
  /\ pc = "zip_stream"
  /\ UNCHANGED aside
  /\ archive.queue = <<>>
  /\ ArchiveFlowing
  /\ IF clientClosed
     THEN reply' = reply
     ELSE reply' = [PipeCommit(reply) EXCEPT !.trailer = @ + 1, !.ended = TRUE]
  /\ result' = OkResult
  /\ pc' = "done"
  /\ UNCHANGED <<fs, req, local, listing, archive, stream, accessed, log, clientClosed>>

\* reading or compressing the next entry fails: archive.on('error')
ArchiveError ==
  /\ pc = "zip_stream"
  /\ UNCHANGED aside
  /\ archive.queue # <<>>
  /\ ArchiveFlowing
  /\ log' = Append(log, "Archive error")
  /\ reply' = ReplySend(ReplyCode(reply, 500), ErrorPayload("Failed to create archive", <<>>, 0))
  /\ archive' = [archive EXCEPT !.errored = TRUE]
  /\ pc' = "zip_errored"
  /\ UNCHANGED <<fs, req, local, listing, result, stream, accessed, clientClosed>>

\* archive.finalize() rejects: downloadItem rethrows, the controller logs and
\* rethrows, the route's catch block answers
DownloadRejected ==
  /\ pc = "zip_errored"
  /\ UNCHANGED aside
  /\ result' = ErrorResult(DownloadPrefix, "archive error")
  /\ log' = log \o <<"Error downloading item", "Download item error">>
  /\ reply' = DownloadCatch(reply, <<DownloadPrefix, "archive error">>)
  /\ pc' = "done"
  /\ UNCHANGED <<fs, req, local, listing, archive, stream, accessed, clientClosed>>

DownloadStep == FileChunk \/ FileEnd \/ ZipStep \/ ZipFinalize \/ DownloadRejected

Next ==
  \/ Idle /\ \E p \in Paths \cup {NoPath} : ListRequest(p)
  \/ Idle /\ \E p \in Paths \cup {NoPath} : FileRequest(p)
  \/ Idle /\ \E p \in Paths : DownloadRequest(p)
  \/ Idle /\ \E p \in Paths : DownloadInfoRequest(p)
  \/ FileStat
  \/ FileRead
  \/ RemoveTarget
  \/ ModifyTarget
  \/ DownloadStat
  \/ \E i \in DOMAIN listing.order : StatChild(i)
  \/ \E i \in DOMAIN listing.order : DeleteChild(i)
  \/ ListSettle
  \/ FileChunk
  \/ FileEnd
  \/ FileReadError
  \/ ClientClose
  \/ ZipStep
  \/ ZipFinalize
  \/ ArchiveError
  \/ DownloadRejected

Spec == Init /\ [][Next]_vars

\* ------------------------------------------------------------------------
\* Properties
\* ------------------------------------------------------------------------

\* the directory path the request stands for (GET /list defaults to "/")
ReqPath == IF req.path = NoPath THEN <<Empty, Empty>> ELSE req.path

\* where the request's path lands on the filesystem
ReqFull == Join(dataDir, ReqPath)

\* the request was passed to the service (not answered 400 by the route)
ReachedService ==
  /\ pc # "idle"
  /\ req.op # "download_info"
  /\ ~(req.op \in {"file", "download"} /\ req.path \in {NoPath, <<Empty>>})

Escapes(full) == ~IsPrefix(dataDir, full.segs)

\* the error kind a caller can tell from the message of a failed call
ErrorKind(r) ==
  IF r.status # "error" THEN "None"
  ELSE IF IncludesNotFound(r.message) THEN "NotFound"
  ELSE IF r.message[2] = "Path is not a directory" THEN "NotADirectory"
  ELSE IF r.message[2] = "Path is a directory, not a file" THEN "IsADirectory"
  ELSE IF r.message[2] = "Invalid path" THEN "InvalidPath"
  ELSE "Error"

\* C1: a list, read or download whose path joins to a place outside dataDir
\* has failed with an InvalidPath error once it has settled.
C1_EscapeIsInvalidPath ==
  (pc = "done" /\ ReachedService /\ Escapes(ReqFull))
    => ErrorKind(result) = "InvalidPath"

\* C2: every filesystem path a request has stat'ed, read, enumerated or
\* archived is dataDir or lies below it.
C2_AccessWithinRoot == \A a \in accessed : IsPrefix(dataDir, a)

\* the nodes strictly below directory d
Subtree(f, d) == {q \in DOMAIN f : IsPrefix(d, q) /\ q # d}

\* the name `<name of d>/<path of q relative to d>`
ArchiveName(d, q) == <<d[Len(d)]>> \o SubSeq(q, Len(d) + 1, Len(q))

\* a directory download that ran to the end with the client still connected
DirDownloadComplete ==
  /\ pc = "done"
  /\ req.op = "download"
  /\ result.status = "ok"
  /\ ReachedService
  /\ PathExists(fs, ReqFull)
  /\ fs[ReqFull.segs].kind = "dir"
  /\ ~clientClosed

\* the last segment of the request's path is the name of the node it lands
\* on (not ".", ".." or nothing, as in "/", "d/." or "d/Z/..")
NamesNodeDirectly ==
  /\ ReqFull.segs # <<>>
  /\ Basename(req.path) = ReqFull.segs[Len(ReqFull.segs)]

\* the request names a directory below dataDir by that directory's own name
NamesDirBelowRoot ==
  /\ IsPrefix(dataDir, ReqFull.segs)
  /\ ReqFull.segs # dataDir
  /\ NamesNodeDirectly

ArchiveBytesWritten == reply.zip # <<>>

\* C4: an archive error after archive bytes were written is logged, and by
\* the time the download has settled the response is ended or aborted.
C4_ErrorClosesSink ==
  (archive.errored /\ ArchiveBytesWritten) =>
    /\ \E i \in DOMAIN log : log[i] = "Archive error"
    /\ pc = "done" => (reply.ended \/ reply.destroyed)

\* C5: once archive bytes were written the reply's status code stays 200 and
\* no error payload is handed to reply.send.
C5_NoErrorPayloadAfterBytes ==
  ArchiveBytesWritten =>
    /\ reply.statusCode = 200
    /\ \A i \in DOMAIN reply.sends : reply.sends[i].type # "error"

\* C6: after the client has disconnected a download is over or can still
\* take a step towards its end.
C6_DisconnectTerminates ==
  (clientClosed /\ req.op = "download") => (pc = "done" \/ ENABLED DownloadStep)

\* a file download whose stream ran to its end
FileDownloadComplete ==
  /\ pc = "done"
  /\ req.op = "download"
  /\ stream.state = "ended"

\* a download of a path that names a regular file
FileDownloadStarted ==
  /\ req.op = "download"
  /\ ReachedService
  /\ PathExists(fs, ReqFull)
  /\ fs[ReqFull.segs].kind = "file"

C7_Witness ==
  /\ FileDownloadComplete
  /\ ReqFull.segs = <<n_data, n_d, n_atxt>>
  /\ reply.bytes = <<1, 2, 3>>

\* a download of a path that names a directory inside dataDir, with archive
\* output on the wire
DirDownloadOnWire ==
  /\ req.op = "download"
  /\ ReachedService
  /\ IsPrefix(dataDir, ReqFull.segs)
  /\ PathExists(fs, ReqFull)
  /\ fs[ReqFull.segs].kind = "dir"
  /\ (reply.zip # <<>> \/ reply.trailer > 0)

\* C8: a directory download answers application/zip with the attachment
\* named <directoryName>.zip, directoryName being the non-empty name of the
\* directory archived, which is also the top-level folder of every entry.
C8_ZipNamedAfterDirectory ==
  DirDownloadOnWire =>
    LET d == ReqFull.segs
        directoryName == d[Len(d)]
    IN /\ reply.wireHeaders["Content-Type"] = "application/zip"
       /\ directoryName # Empty
       /\ reply.wireHeaders["Content-Disposition"] = Attachment(directoryName \o ZipSuffix)
       /\ \A i \in DOMAIN reply.zip : reply.zip[i].name[1] = directoryName

\* name carries extension k of the table, in any case, after a non-empty stem
HasExtension(name, k) ==
  /\ Len(name) > Len(k)
  /\ ToLowerCase(SubSeq(name, Len(name) - Len(k) + 1, Len(name))) = k

\* the table's entry for the name's extension, else application/octet-stream
ExpectedType(name) ==
  IF \E e \in ContentTypes : HasExtension(name, e[1])
  THEN (CHOOSE e \in ContentTypes : HasExtension(name, e[1]))[2]
  ELSE "application/octet-stream"

\* the head of a file download is on the wire
FileHeadOnWire ==
  /\ FileDownloadStarted
  /\ reply.headersSent
  /\ reply.payload = <<>>

\* C9: the Content-Type of a file download is the table's entry for the
\* extension, compared case-insensitively, of the file name the download is
\* made under, application/octet-stream when that name has no extension or
\* the table has no such key.
C9_ContentTypeByExtension ==
  FileHeadOnWire =>
    reply.wireHeaders["Content-Type"] = ExpectedType(Basename(req.path))

\* R.MD went out as text/markdown
C9_Witness ==
  /\ FileHeadOnWire
  /\ NamesNodeDirectly
  /\ ReqFull.segs = <<n_data, n_Z, n_RMD>>
  /\ reply.wireHeaders["Content-Type"] = "text/markdown"

\* a listing that succeeded
Listed == pc = "done" /\ req.op = "list" /\ result.status = "ok"

\* C10: in a listing every folder precedes every file, and within folders
\* and within files the names ascend in locale order.
C10_FoldersFirstThenByName ==
  Listed =>
    \A i, j \in DOMAIN result.items :
      i < j =>
        /\ result.items[i].isFolder \/ ~result.items[j].isFolder
        /\ result.items[i].isFolder = result.items[j].isFolder
             => LocaleCompare(result.items[i].name, result.items[j].name) < 0

\* the listing of dataDir: d and Z (folders) before b and c.x (files)
C10_Witness ==
  /\ Listed
  /\ ReqFull.segs = dataDir
  /\ [i \in DOMAIN result.items |-> result.items[i].name] = <<n_d, n_Z, n_b, n_cx>>

\* the listing of the request's directory on the initial filesystem, readdir
\* reporting the names as they lie on disk and nothing removed meanwhile
ReferenceListing(dirPath) ==
  ListDirectory(InitialFs, dirPath, InitialFs[Join(dataDir, dirPath).segs].entries).result.items

\* C11: a listing of a directory nothing was removed from is the same
\* sequence whatever order readdir reported the names in and whatever order
\* the stats of the children completed in.
C11_ListingOrderIndependent ==
  (Listed /\ fs = InitialFs) => result.items = ReferenceListing(ReqPath)

\* dataDir listed with readdir reporting the names in another order than the
\* disk's and the stat of the first name completing last
C11_Witness ==
  /\ Listed
  /\ fs = InitialFs
  /\ ReqFull.segs = dataDir
  /\ listing.order = <<n_b, n_d, n_cx, n_Z>>
  /\ listing.last = 1

\* a /list request that was answered
ListAnswered == pc = "done" /\ req.op = "list"

\* no entry was returned: none in the result, no items payload sent
NoEntryReturned ==
  /\ result.items = <<>>
  /\ \A i \in DOMAIN reply.sends : reply.sends[i].type # "items"

\* C12: listDirectory of a missing path fails with the NotFound error and of
\* a file with the NotADirectory error, and returns no entry in either case.
C12_ListErrorsDistinct ==
  ListAnswered =>
    /\ ~PathExists(fs, ReqFull) => (ErrorKind(result) = "NotFound" /\ NoEntryReturned)
    /\ (PathExists(fs, ReqFull) /\ fs[ReqFull.segs].kind = "file")
         => (ErrorKind(result) = "NotADirectory" /\ NoEntryReturned)

\* /list of the file b was refused as not a directory
C12_Witness ==
  /\ ListAnswered
  /\ ReqFull.segs = <<n_data, n_b>>
  /\ ErrorKind(result) = "NotADirectory"

\* a /file request that reached getFileContent and was answered
FileAnswered == pc = "done" /\ req.op = "file" /\ ReachedService

\* no content was returned: none in the result, no text payload sent
NoContentReturned ==
  /\ result.content = <<>>
  /\ \A i \in DOMAIN reply.sends : reply.sends[i].type # "text"

\* nothing has changed the request's target since the request arrived
TargetUntouched == local.changes = 0

\* C13: getFileContent of a directory fails with the IsADirectory error and
\* of a missing path with the NotFound error, the /file route answers 404
\* for the missing path only, and no content is returned in either case
\* (the path being missing, or a directory, from the arrival of the request).
C13_ReadErrorsDistinct ==
  (FileAnswered /\ TargetUntouched) =>
    /\ ~PathExists(fs, ReqFull)
         => (ErrorKind(result) = "NotFound" /\ reply.wireStatus = 404 /\ NoContentReturned)
    /\ (PathExists(fs, ReqFull) /\ fs[ReqFull.segs].kind = "dir")
         => (ErrorKind(result) = "IsADirectory" /\ reply.wireStatus # 404 /\ NoContentReturned)

\* /file of the directory d was refused as a directory
C13_Witness ==
  /\ FileAnswered
  /\ ReqFull.segs = <<n_data, n_d>>
  /\ ErrorKind(result) = "IsADirectory"
  /\ reply.wireStatus = 500

\* a /download request for a missing item that was answered
DownloadOfMissing ==
  /\ pc = "done"
  /\ req.op = "download"
  /\ ReachedService
  /\ ~PathExists(fs, ReqFull)

\* C14: downloadItem of a path that is missing when the request arrives
\* fails with NotFound with no download header set on the reply or on the
\* raw response and no byte written, and the route's 404 is what goes out.
C14_MissingFailsBeforeOutput ==
  (DownloadOfMissing /\ TargetUntouched) =>
    /\ ErrorKind(result) = "NotFound"
    /\ reply.rawHeaders = NoHeaders
    /\ reply.headers = NoHeaders
    /\ reply.wireHeaders = NoHeaders
    /\ reply.bytes = <<>>
    /\ reply.zip = <<>>
    /\ reply.trailer = 0
    /\ reply.wireStatus = 404
    /\ Len(reply.sends) = 1
    /\ reply.payload = <<ErrorPayload("Item not found", result.message, 404)>>

\* /download of R.MD, which is not in dataDir, got the 404
C14_Witness ==
  /\ DownloadOfMissing
  /\ req.path = <<n_RMD>>
  /\ reply.wireStatus = 404

\* C15: a request of any of the three routes that names something that does
\* not exist is answered 404.
C15_MissingIs404 ==
  (pc = "done" /\ ReachedService /\ ~PathExists(fs, ReqFull)) => reply.wireStatus = 404

C17_FolderSizeZero ==
  Listed => \A i \in DOMAIN result.items : result.items[i].isFolder => result.items[i].size = 0

\* the logical path of the directory at full, below dataDir: "/" and its names
LogicalPath(full) == <<Empty>> \o SubSeq(full.segs, Len(dataDir) + 1, Len(full.segs))

\* C18: every entry of a listing of a directory in dataDir carries the name
\* of a child and, as path, the normalized absolute logical path of the
\* directory followed by that name.
C18_EntryPathNormalized ==
  (Listed /\ IsPrefix(dataDir, ReqFull.segs)) =>
    \A i \in DOMAIN result.items :
      /\ \E k \in DOMAIN listing.order : listing.order[k] = result.items[i].name
      /\ result.items[i].path = LogicalPath(ReqFull) \o <<result.items[i].name>>

\* C19: a listing with no path and a listing with the empty path return the
\* sequence a listing of "/" returns.
C19_DefaultPathIsRoot ==
  (Listed /\ fs = InitialFs /\ req.path \in {NoPath, <<Empty>>})
    => result.items = ReferenceListing(<<Empty, Empty>>)

\* C20: a listing in which the stat of a child failed has failed as a whole:
\* an error result, no entry returned, the error payload on the wire.
C20_StatFailureAbortsListing ==
  (ListAnswered /\ listing.rejected) =>
    /\ result.status = "error"
    /\ NoEntryReturned
    /\ reply.wireStatus = 500
    /\ Len(reply.payload) = 1
    /\ reply.payload[1].type = "error"

\* a child of dataDir was removed after readdir; its stat failed after the
\* stats of two others had succeeded and before the last one completed
C20_Witness ==
  /\ ListAnswered
  /\ listing.rejected
  /\ ReqFull.segs = dataDir
  /\ Cardinality({i \in DOMAIN listing.infos : listing.infos[i] # NoInfo}) = 2
  /\ listing.pending # {}

\* a /file request whose content was returned
FileReturned == pc = "done" /\ req.op = "file" /\ result.status = "ok"

\* C21: the size getFileContent returns is the byte length of the content it
\* returns.
C21_SizeMatchesContent ==
  FileReturned => result.size = Len(result.content)

\* a download past its stat that did not take the single-file branch
DirDownload ==
  /\ req.op = "download"
  /\ pc \in {"zip_stream", "zip_errored", "done"}
  /\ stream.state = "none"

\* a directory download with nothing in its way: no archive error, the
\* client connected
DirDownloadUnhindered == DirDownload /\ pc = "zip_stream" /\ ~archive.errored /\ ~clientClosed

\* C22 (order): the central directory is written once, after the last entry,
\* and with the client connected the download has signalled completion only
\* with it written.
C22_TrailerOrder ==
  DirDownload =>
    /\ reply.trailer <= 1
    /\ reply.trailer = 1 => archive.queue = <<>>
    /\ (pc = "done" /\ result.status = "ok" /\ ~clientClosed) => reply.trailer = 1

\* C22: the order above holds in every state, no entry is written once the
\* central directory is, an unhindered directory download can always take
\* its next step, and every such step shortens what is left to write, so the
\* download reaches its completed state.
C22_TrailerOnceThenComplete ==
  /\ [](C22_TrailerOrder)
  /\ [](DirDownloadUnhindered => ENABLED (ZipStep \/ ZipFinalize))
  /\ [][(DirDownload /\ reply.trailer = 1) => reply'.zip = reply.zip /\ reply'.trailer = 1]_vars
  /\ [][ZipStep => Len(archive'.queue) < Len(archive.queue)]_vars
  /\ [][(ZipFinalize /\ ~clientClosed)
          => (archive.queue = <<>> /\ reply'.trailer = 1 /\ pc' = "done" /\ result'.status = "ok")]_vars

\* the download of /data/d is complete: three entries, then the trailer
C22_Witness ==
  /\ DirDownload
  /\ pc = "done"
  /\ result.status = "ok"
  /\ ReqFull.segs = <<n_data, n_d>>
  /\ Len(reply.zip) = 3
  /\ reply.trailer = 1
  /\ ~clientClosed

\* a download that ran to its end with the client connected
DownloadSucceeded ==
  /\ pc = "done"
  /\ req.op = "download"
  /\ result.status = "ok"
  /\ ~clientClosed
  /\ stream.state \in {"none", "ended"}

\* the header went out with the given value
OnWire(name, value) == name \in DOMAIN reply.wireHeaders /\ reply.wireHeaders[name] = value

\* C26: a successful download reaches the client with Cache-Control:
\* no-cache and Pragma: no-cache besides Content-Disposition and Content-Type.
C26_CommonHeadersOnWire ==
  DownloadSucceeded =>
    /\ OnWire("Cache-Control", "no-cache")
    /\ OnWire("Pragma", "no-cache")
    /\ "Content-Disposition" \in DOMAIN reply.wireHeaders
    /\ "Content-Type" \in DOMAIN reply.wireHeaders

\* a /file or /download request whose target was removed after the
\* existence check and which was answered
RemovedInFlight ==
  /\ pc = "done"
  /\ req.op \in {"file", "download"}
  /\ local.changes > 0
  /\ ~PathExists(fs, local.fullPath)
  /\ result.status = "error"

\* C27: a target removed between the existence check and the stat or read
\* is reported as NotFound and answered 404.
C27_RemovedIsNotFound ==
  RemovedInFlight => (ErrorKind(result) = "NotFound" /\ reply.wireStatus = 404)

\* C29: a /download request hands at most one payload to reply.send, and
\* none once the response was started by a pipe or a stream.
C29_SentAtMostOnce ==
  req.op \in {"download", "download_info"} =>
    /\ Len(reply.sends) <= 1
    /\ (reply.zip # <<>> \/ reply.bytes # <<>> \/ reply.trailer > 0) => reply.sends = <<>>

\* C25: a /download request that accepts application/json is answered 200
\* with the item's base name, kind and stat size and no file or archive
\* bytes when the item exists, and 404 when it does not.
C25_DownloadInfo ==
  (pc = "done" /\ req.op = "download_info" /\ req.path # <<Empty>>) =>
    LET full == Join(dataDir, req.path)
    IN /\ reply.bytes = <<>> /\ reply.zip = <<>>
       /\ IF PathExists(fs, full)
          THEN /\ reply.wireStatus = 200
               /\ reply.payload = <<InfoPayload(Basename(req.path), fs[full.segs].kind = "dir",
                                                StatSize(fs, full.segs))>>
          ELSE reply.wireStatus = 404

\* a node that is neither a regular file nor a directory (a FIFO, a socket,
\* a device): stats.isFile() and stats.isDirectory() are both false
OtherNode == [kind |-> "other", entries |-> <<>>, content |-> <<>>, size |-> 0]

\* the initial tree with a FIFO in the place of the file /data/b
SpecialFs == [q \in DOMAIN InitialFs |-> IF q = <<n_data, n_b>> THEN OtherNode ELSE InitialFs[q]]

SpecialInit ==
  /\ fs = SpecialFs
  /\ pc = "idle"
  /\ req = [op |-> "none", path |-> NoPath]
  /\ local = NoLocal
  /\ listing = NoListing
  /\ result = NoResult
  /\ reply = NewReply
  /\ archive = NoArchive
  /\ stream = NoStream
  /\ accessed = {}
  /\ log = <<>>
  /\ clientClosed = FALSE
  /\ server = Listening
  /\ browser = NoBrowser
  /\ pair = NoPair

\* the server over a data directory that holds a special node
SpecialSpec == SpecialInit /\ [][Next]_vars

\* isFolder as listDirectory reports it for the node the request names
ListedAsFolder ==
  LET full == ReqFull.segs
      parent == [segs |-> SubSeq(full, 1, Len(full) - 1), trail |-> FALSE]
  IN GetItemInfo(fs, parent, full[Len(full)], <<Empty, Empty>>).isFolder

\* the request names a node below the filesystem root that is there and
\* that nothing has changed
NamesNode ==
  /\ ReachedService
  /\ TargetUntouched
  /\ ReqFull.segs # <<>>
  /\ PathExists(fs, ReqFull)

\* C28: a node listed with isFolder false is accepted by getFileContent and
\* downloaded through the single-file branch; the ZIP branch is taken for
\* nodes listed with isFolder true only.
C28_SameClassification ==
  /\ (pc = "done" /\ req.op = "file" /\ NamesNode /\ ~ListedAsFolder) => result.status = "ok"
  /\ (req.op = "download" /\ NamesNode /\ pc \notin {"idle", "download_stat"} /\ ~ListedAsFolder)
       => stream.state # "none"
  /\ (req.op = "download" /\ NamesNode /\ pc \in {"zip_stream", "zip_errored"}) => ListedAsFolder

\* ------------------------------------------------------------------------
\* The file browser (frontend): FileBrowserComponent.loadDirectory
\* ------------------------------------------------------------------------

\* the paths the router hands to the component: '/', '/d', '/Z', '/d/Z', '/b'
BrowserPaths ==
  {<<Empty, Empty>>, <<Empty, n_d>>, <<Empty, n_Z>>, <<Empty, n_d, n_Z>>, <<Empty, n_b>>}

\* the answers GET /api/list?path=p can give
ListAnswers(p) == {ListDirectory(fs, p, order).result : order \in ReaddirOrders(fs, p)}

\* route.params emits: loadDirectory(path) sets loading, clears error, sets
\* currentPath and subscribes to a new GET /list; an earlier request stays
\* subscribed
LoadDirectory(path) ==
  /\ browser.loads < MaxLoads
  /\ browser' = [browser EXCEPT !.loading = TRUE, !.error = "null", !.currentPath = path,
                                !.loads = @ + 1,
                                !.inflight = @ \cup {[id |-> browser.loads + 1, path |-> path]}]
  /\ UNCHANGED <<fs, pc, req, local, listing, result, reply, archive, stream, accessed, log,
                 clientClosed, server, pair>>

\* the response of request q arrives with status 200: the next callback
LoadNext(q) ==
  /\ q \in browser.inflight
  /\ \E answer \in ListAnswers(q.path) :
       /\ answer.status = "ok"
       /\ browser' = [browser EXCEPT !.items = answer.items, !.loading = FALSE,
                                     !.inflight = @ \ {q}]
  /\ UNCHANGED <<fs, pc, req, local, listing, result, reply, archive, stream, accessed, log,
                 clientClosed, server, pair>>

\* request q fails (an error status or no connection): the error callback
LoadError(q) ==
  /\ q \in browser.inflight
  /\ browser' = [browser EXCEPT !.error = "Failed to load directory contents", !.loading = FALSE,
                                !.inflight = @ \ {q}]
  /\ UNCHANGED <<fs, pc, req, local, listing, result, reply, archive, stream, accessed, log,
                 clientClosed, server, pair>>

BrowserNext ==
  \/ \E path \in BrowserPaths : LoadDirectory(path)
  \/ \E q \in browser.inflight : LoadNext(q)
  \/ \E q \in browser.inflight : LoadError(q)

\* one browser tab in front of a server whose data directory holds still
BrowserSpec == Init /\ [][BrowserNext]_vars

\* the request loadDirectory sent last is still out
LatestPending == \E q \in browser.inflight : q.id = browser.loads

\* C30: with no list request out and no error shown, items is a listing
\* of currentPath and loading is false; loading is true for as long as the
\* request sent last is out.
C30_LatestWins ==
  /\ (browser.loads > 0 /\ browser.inflight = {} /\ browser.error = "null")
       => /\ ~browser.loading
          /\ \E answer \in ListAnswers(browser.currentPath) :
               answer.status = "ok" /\ browser.items = answer.items
  /\ LatestPending => browser.loading

\* ------------------------------------------------------------------------
\* Startup: startServer and FileService.initialize
\* ------------------------------------------------------------------------

\* path.join(__dirname, '../../static-files'): the bundle next to the code
staticFilesPath == [segs |-> <<n_app, n_static>>, trail |-> FALSE]

\* path.join(this.dataDir, 'static-files')
staticFilesDest == [segs |-> Append(dataDir, n_static), trail |-> FALSE]

\* the disks startServer may find. data: the data directory is absent, a
\* file or a directory; old: what lies at dataDir/static-files from an
\* earlier run (nothing, a file, a directory); bundle: the names in the
\* bundle directory, or "absent" when the bundle is not there
BootDisk(data, old, bundle) ==
  LET code == (<<>> :> DirNode(IF data = "absent" THEN <<n_app>> ELSE <<n_app, n_data>>)) @@
              (<<n_app>> :> DirNode(IF bundle = "absent" THEN <<>> ELSE <<n_static>>))
      shipped ==
        IF bundle = "absent" THEN code
        ELSE code @@ (<<n_app, n_static>> :> DirNode(bundle)) @@
             [q \in {<<n_app, n_static, bundle[i]>> : i \in DOMAIN bundle} |->
                IF q[3] = n_docs THEN DirNode(<<n_RMD>>) ELSE DirNode(<<>>)] @@
             [q \in {<<n_app, n_static, bundle[i], n_RMD>> : i \in {j \in DOMAIN bundle : bundle[j] = n_docs}}
                |-> FileNode(<<5, 6>>)]
      kept ==
        IF data = "absent" THEN shipped
        ELSE IF data = "file" THEN shipped @@ (<<n_data>> :> FileNode(<<1>>))
        ELSE IF old = "absent" THEN shipped @@ (<<n_data>> :> DirNode(<<n_cx>>)) @@
                                    (<<n_data, n_cx>> :> FileNode(<<8>>))
        ELSE shipped @@ (<<n_data>> :> DirNode(<<n_cx, n_static>>)) @@
             (<<n_data, n_cx>> :> FileNode(<<8>>)) @@
             (<<n_data, n_static>> :> IF old = "file" THEN FileNode(<<2>>) ELSE DirNode(<<n_docs>>)) @@
             (IF old = "file" THEN <<>> :> DirNode(<<>>)
              ELSE (<<n_data, n_static, n_docs>> :> DirNode(<<n_RMD>>)) @@
                   (<<n_data, n_static, n_docs, n_RMD>> :> FileNode(<<7>>)))
  IN kept

Bundles == {"absent", <<>>, <<n_docs>>, <<n_scripts>>, <<n_docs, n_scripts>>}

BootDisks ==
  {BootDisk("absent", "absent", b) : b \in Bundles} \cup
  {BootDisk("file", "absent", b) : b \in Bundles} \cup
  {BootDisk("dir", o, b) : o \in {"absent", "file", "dir"}, b \in Bundles}

\* fs.ensureDir(dir) for a directory whose parent is the filesystem root:
\* nothing to do when it is there, created when absent
EnsureDir(f, dir) ==
  IF dir \in DOMAIN f THEN f
  ELSE [q \in DOMAIN f \cup {dir} |->
          IF q = dir THEN DirNode(<<>>)
          ELSE IF q = <<>> THEN DirNode(Append(f[q].entries, dir[Len(dir)]))
          ELSE f[q]]

\* where fs.copy(src, dest) puts the node at q, a path below src
CopyTarget(src, dest, q) == dest \o SubSeq(q, Len(src) + 1, Len(q))

\* the nodes below src (src included)
Below(f, src) == {q \in DOMAIN f : IsPrefix(src, q)}

\* fs.copy refuses to put a directory over a file or a file over a directory
CopyConflict(f, src, dest) ==
  \E q \in Below(f, src) :
    LET t == CopyTarget(src, dest, q) IN t \in DOMAIN f /\ f[t].kind # f[q].kind

\* the names of a directory after names were copied into it
MergeEntries(old, new) ==
  old \o SelectSeq(new, LAMBDA x : \A i \in DOMAIN old : old[i] # x)

\* fs.copy(src, dest) without a conflict: every node below src is written
\* below dest, files overwritten, directories merged; dest is entered into
\* its parent when it is new
CopyTree(f, src, dest) ==
  LET targets == {CopyTarget(src, dest, q) : q \in Below(f, src)}
      Origin(t) == CHOOSE q \in Below(f, src) : CopyTarget(src, dest, q) = t
      parent == SubSeq(dest, 1, Len(dest) - 1)
  IN [t \in DOMAIN f \cup targets |->
        IF t \in targets
        THEN IF f[Origin(t)].kind = "file" THEN f[Origin(t)]
             ELSE DirNode(MergeEntries(IF t \in DOMAIN f THEN f[t].entries ELSE <<>>,
                                       f[Origin(t)].entries))
        ELSE IF t = parent /\ dest \notin DOMAIN f
        THEN DirNode(Append(f[t].entries, dest[Len(dest)]))
        ELSE f[t]]

\* startServer's catch: console.error, process.exit(1)
Exit1 == [server EXCEPT !.pc = "exited", !.exitCode = 1, !.failed = TRUE]

\* initialize, first await: fs.ensureDir(this.dataDir). It rejects when a
\* file is in the place of the directory or the directory cannot be made
BootEnsureDir ==
  /\ server.pc = "start"
  /\ \E denied \in BOOLEAN :
       IF (dataDir \in DOMAIN fs /\ fs[dataDir].kind # "dir") \/ (dataDir \notin DOMAIN fs /\ denied)
       THEN /\ server' = Exit1
            /\ fs' = fs
       ELSE /\ ~denied
            /\ server' = [server EXCEPT !.pc = "ensured"]
            /\ fs' = EnsureDir(fs, dataDir)
  /\ UNCHANGED <<pc, req, local, listing, result, reply, archive, stream, accessed, log,
                 clientClosed, browser, pair>>

\* initialize, second await: _copyStaticFiles copies the bundle when it is
\* there, and initialize returns
BootCopy ==
  /\ server.pc = "ensured"
  /\ IF ~PathExists(fs, staticFilesPath)
     THEN /\ server' = [server EXCEPT !.pc = "initialized", !.initialized = TRUE]
          /\ fs' = fs
     ELSE IF CopyConflict(fs, staticFilesPath.segs, staticFilesDest.segs)
     THEN /\ server' = Exit1
          /\ fs' = fs
     ELSE /\ server' = [server EXCEPT !.pc = "initialized", !.initialized = TRUE]
          /\ fs' = CopyTree(fs, staticFilesPath.segs, staticFilesDest.segs)
  /\ UNCHANGED <<pc, req, local, listing, result, reply, archive, stream, accessed, log,
                 clientClosed, browser, pair>>

\* createApp(dataDir) and app.listen({ port, host }): the server listens, or
\* the port is taken and startServer's catch exits
BootListen ==
  /\ server.pc = "initialized"
  /\ \E bound \in BOOLEAN :
       server' = IF bound THEN [server EXCEPT !.pc = "listening"] ELSE Exit1
  /\ UNCHANGED <<fs, pc, req, local, listing, result, reply, archive, stream, accessed, log,
                 clientClosed, browser, pair>>

\* the listings asked of a started server: '/' and '/static-files'
BootListPaths == {<<Empty, Empty>>, <<Empty, n_static>>}

\* the listening server answers GET /api/list for the root or for
\* /static-files
BootList ==
  /\ server.pc = "listening"
  /\ req.op = "none"
  /\ \E p \in BootListPaths :
       \E order \in ReaddirOrders(fs, p) :
         LET out == ListDirectory(fs, p, order)
         IN /\ req' = [op |-> "list", path |-> p]
            /\ result' = out.result
            /\ accessed' = out.touched
  /\ UNCHANGED <<fs, pc, local, listing, reply, archive, stream, log, clientClosed,
                 server, browser, pair>>

BootInit ==
  /\ fs \in BootDisks
  /\ pc = "idle"
  /\ req = [op |-> "none", path |-> NoPath]
  /\ local = NoLocal
  /\ listing = NoListing
  /\ result = NoResult
  /\ reply = NewReply
  /\ archive = NoArchive
  /\ stream = NoStream
  /\ accessed = {}
  /\ log = <<>>
  /\ clientClosed = FALSE
  /\ server = [pc |-> "start", exitCode |-> 0, initialized |-> FALSE, failed |-> FALSE]
  /\ browser = NoBrowser
  /\ pair = NoPair

BootNext == BootEnsureDir \/ BootCopy \/ BootListen \/ BootList

\* the backend process from its start
BootSpec == BootInit /\ [][BootNext]_vars

\* items holds a folder named static-files
HasStaticFolder(items) ==
  \E i \in DOMAIN items : items[i].name = n_static /\ items[i].isFolder

\* C24: a listening server has initialize() behind it and a data directory,
\* and every successful listing of the root it gives holds the folder
\* static-files; a failed start has exited with code 1 and is not listening.
C24_ListensAfterInitialize ==
  /\ server.pc = "listening" =>
       /\ server.initialized
       /\ dataDir \in DOMAIN fs /\ fs[dataDir].kind = "dir"
       /\ \A order \in ReaddirOrders(fs, <<Empty, Empty>>) :
            LET out == ListDirectory(fs, <<Empty, Empty>>, order).result
            IN out.status = "ok" => HasStaticFolder(out.items)
       /\ (req.op = "list" /\ req.path = <<Empty, Empty>> /\ result.status = "ok")
            => HasStaticFolder(result.items)
  /\ server.failed => (server.pc = "exited" /\ server.exitCode = 1)
  /\ server.pc = "exited" => server.failed

\* ------------------------------------------------------------------------
\* Two requests in progress at once
\* ------------------------------------------------------------------------

\* the paths the two requests name: 'b', 'd', 'Z', 'c.x', 'd/Z', '.js'
PairPaths == {<<n_b>>, <<n_d>>, <<n_Z>>, <<n_cx>>, <<n_d, n_Z>>, <<n_js>>}

PairOps == {"list", "file", "download"}

\* the prefix each method's catch puts before the message
PairPrefix(op) ==
  IF op = "list" THEN "Failed to list directory: "
  ELSE IF op = "file" THEN FilePrefix
  ELSE DownloadPrefix

\* the error each method throws for a missing path
PairMissing(op) ==
  IF op = "list" THEN "Directory not found"
  ELSE IF op = "file" THEN "File not found"
  ELSE "Item not found"

\* downloadItem(itemPath) on a filesystem that holds still and with nothing
\* going wrong on the way: the bytes of the file, or the entries of the
\* archive
DownloadItem(f, itemPath) ==
  LET full == Join(dataDir, itemPath)
  IN IF ~PathExists(f, full) THEN ErrorResult(DownloadPrefix, "Item not found")
     ELSE IF f[full.segs].kind = "file"
     THEN [OkResult EXCEPT !.content = f[full.segs].content, !.size = StatSize(f, full.segs)]
     ELSE [OkResult EXCEPT !.items = Directory(f, full.segs, ItemName(itemPath))]

\* a fullPath kept where every call writes it: call i reads what the other
\* call has put there since
FullPathShared(pr, i) ==
  IF pr[3 - i].pc \in {"exists", "stat", "read"} THEN pr[3 - i].fullPath ELSE pr[i].fullPath

\* fullPath as call i reads it: the const of its own invocation
FullPath(pr, i) == pr[i].fullPath

\* the method is entered: const fullPath = path.join(this.dataDir, p)
PairCall(i, op, p) ==
  /\ pair[i].pc = "idle"
  /\ pair' = [pair EXCEPT ![i] = [NoSlot EXCEPT !.op = op, !.path = p, !.pc = "exists",
                                                !.fullPath = Join(dataDir, p)]]
  /\ UNCHANGED <<fs, pc, req, local, listing, result, reply, archive, stream, accessed, log,
                 clientClosed, server, browser>>

\* await fs.pathExists(fullPath): the method throws when it is not there
PairExists(i) ==
  /\ pair[i].pc = "exists"
  /\ pair' = [pair EXCEPT ![i] =
       IF PathExists(fs, FullPath(pair, i))
       THEN [@ EXCEPT !.pc = "stat"]
       ELSE [@ EXCEPT !.pc = "done",
                      !.result = ErrorResult(PairPrefix(pair[i].op), PairMissing(pair[i].op))]]
  /\ UNCHANGED <<fs, pc, req, local, listing, result, reply, archive, stream, accessed, log,
                 clientClosed, server, browser>>

\* await fs.stat(fullPath) and the test on its kind
PairStat(i) ==
  /\ pair[i].pc = "stat"
  /\ LET kind == fs[FullPath(pair, i).segs].kind
     IN pair' = [pair EXCEPT ![i] =
          IF pair[i].op = "list" /\ kind # "dir"
          THEN [@ EXCEPT !.pc = "done",
                         !.result = ErrorResult(PairPrefix("list"), "Path is not a directory")]
          ELSE IF pair[i].op = "file" /\ kind = "dir"
          THEN [@ EXCEPT !.pc = "done",
                         !.result = ErrorResult(PairPrefix("file"), "Path is a directory, not a file")]
          ELSE [@ EXCEPT !.pc = "read"]]
  /\ UNCHANGED <<fs, pc, req, local, listing, result, reply, archive, stream, accessed, log,
                 clientClosed, server, browser>>

\* the rest of the method: readdir and the item infos, readFile, or the
\* file stream or archive of the download
PairRead(i) ==
  /\ pair[i].pc = "read"
  /\ LET full == FullPath(pair, i)
         node == fs[full.segs]
     IN \E order \in Perms(node.entries) :
          pair' = [pair EXCEPT ![i] =
            [@ EXCEPT !.pc = "done",
                      !.result =
                        IF pair[i].op = "list"
                        THEN [OkResult EXCEPT !.items =
                                SortItems([k \in DOMAIN order |->
                                             GetItemInfo(fs, full, order[k], pair[i].path)])]
                        ELSE IF pair[i].op = "file" \/ node.kind = "file"
                        THEN [OkResult EXCEPT !.content = node.content, !.size = node.size]
                        ELSE [OkResult EXCEPT !.items =
                                Directory(fs, full.segs, ItemName(pair[i].path))]]]
  /\ UNCHANGED <<fs, pc, req, local, listing, result, reply, archive, stream, accessed, log,
                 clientClosed, server, browser>>

PairNext ==
  \/ \E i \in {1, 2}, op \in PairOps, p \in PairPaths : PairCall(i, op, p)
  \/ \E i \in {1, 2} : PairExists(i)
  \/ \E i \in {1, 2} : PairStat(i)
  \/ \E i \in {1, 2} : PairRead(i)

\* two requests served at once over a data directory that holds still
PairSpec == Init /\ [][PairNext]_vars

\* the results the call gives when it is the only one in progress
Alone(op, p) ==
  IF op = "list" THEN {ListDirectory(fs, p, order).result : order \in ReaddirOrders(fs, p)}
  ELSE IF op = "file" THEN {GetFileContent(fs, p)}
  ELSE {DownloadItem(fs, p)}

\* C23: the three operations leave the filesystem as it was and its root
\* where it was, and a call that ends while another is in progress, or after
\* one, ends with the result it gives alone.
C23_Independent ==
  /\ fs = InitialFs
  /\ \A i \in {1, 2} :
       /\ pair[i].pc # "idle" => IsPrefix(dataDir, pair[i].fullPath.segs)
       /\ pair[i].pc = "done" => pair[i].result \in Alone(pair[i].op, pair[i].path)

\* a listing of d has ended after a download of Z was started and before
\* that download has ended
C23_Witness ==
  /\ pair[1].pc = "done" /\ pair[1].op = "list" /\ pair[1].path = <<n_d>>
  /\ pair[1].result.status = "ok" /\ Len(pair[1].result.items) = 3
  /\ pair[2].pc = "read" /\ pair[2].op = "download" /\ pair[2].path = <<n_Z>>

====
